---- MODULE Spec2Model ----
(***************************************************************************)
(* State-machine model of the two subsystems of the repository:            *)
(*   - the variational EM driver of models/gmm.py (run_vem, inference,     *)
(*     m_step, e_step and their helpers), specification SpecVEM;           *)
(*   - the ConditionalVISEM model of                                       *)
(*     experiments/medical/ukbb/sem_vi/conditional_sem.py (module load,    *)
(*     construction, pgm_model, model, guide), specification SpecSEM.      *)
(*                                                                         *)
(* Numbers.  A real quantity v is the integer v * Scale, rounded as a      *)
(* float rounds.  Log-domain quantities (digamma values, expected          *)
(* statistics, logits) are counted in units of ln 2, so that exp of a      *)
(* logit z is 2^z.                                                         *)
(***************************************************************************)
EXTENDS Integers, Sequences, FiniteSets, TLC

\* ------------------------------------------------------------------ bounds
MaxN == 3          \* rows of the data matrix x: N in 1..MaxN
MaxK == 2          \* mixture components: K in 1..MaxK
MaxD == 1          \* data dimension: D in 1..MaxD
MaxIter == 2       \* n_iter in 0..MaxIter
XVals == {0, 1}    \* the values an entry of x takes
MaxInstances == 2  \* ConditionalVISEM objects constructed in one process
MaxImports == 2    \* import statements naming conditional_sem executed
LatentDim == 1     \* latent_dim (width of z)
Noise == {0, 1}    \* the values a draw from a base distribution takes

\* The rows x is built from: the d-vectors with all entries equal
XRows(d) == {[a \in 1..d |-> v] : v \in XVals}

\* ------------------------------------------- real numbers on a fixed grid
\* A real number v is held as the integer v * Scale (as a float holds it to
\* a fixed relative resolution).  120 makes 0.05 / K, 0.5 and the thirds of
\* the Dirichlet grid exact; 256 sets the resolution, 1 / 30720.
Scale == 120 * 256

Fix(n, d) == (n * Scale) \div d

Abs(a) == IF a < 0 THEN -a ELSE a

\* a * b on the grid, for a, b >= 0, without leaving 32 bits
MulFix(a, b) ==
    (a \div Scale) * b + (a % Scale) * (b \div Scale)
        + ((a % Scale) * (b % Scale)) \div Scale

\* 1 / q on the grid, for q > 0, rounded to nearest
Recip(q) == (Scale * Scale + q \div 2) \div q

\* a * p / q for a >= 0 and small p, q, without leaving 32 bits
MulRatio(a, p, q) == (a \div q) * p + ((a % q) * p) \div q

\* ln 2 = 2731 / 3940 to within 4e-8: a number of ln 2 as a natural
\* logarithm, and back
ToNats(a) == MulRatio(a, 2731, 3940)

ToLog2(a) == MulRatio(a, 3940, 2731)

RECURSIVE ISum(_)
ISum(s) == IF s = <<>> THEN 0 ELSE Head(s) + ISum(Tail(s))

RECURSIVE Pow2(_)
Pow2(n) == IF n = 0 THEN 1 ELSE 2 * Pow2(n - 1)

RECURSIVE FloorLog2(_)
FloorLog2(n) == IF n <= 1 THEN 0 ELSE 1 + FloorLog2(n \div 2)

MaxOf(S) == CHOOSE m \in S : \A y \in S : y <= m

\* ln(m) for 1 <= m < 2: 2 * atanh(t) with t = (m - 1) / (m + 1) < 1/3,
\* by its series t + t^3/3 + t^5/5 + t^7/7 + t^9/9
LnMantissa(m) ==
    LET t  == ((m - Scale) * Scale) \div (m + Scale)
        t2 == MulFix(t, t)
        p4 == Scale \div 7 + MulFix(t2, Scale \div 9)
        p3 == Scale \div 5 + MulFix(t2, p4)
        p2 == Scale \div 3 + MulFix(t2, p3)
        p1 == Scale + MulFix(t2, p2)
    IN  2 * MulFix(t, p1)

\* log2(y) for y >= 1: exponent plus log2 of the mantissa
Log2Fix(y) ==
    LET e == FloorLog2(y \div Scale)
    IN  e * Scale + ToLog2(LnMantissa(y \div Pow2(e)))

\* exp(u) for 0 <= u < ln 2, by its Taylor series from term i on (Horner)
RECURSIVE ExpSeries(_, _)
ExpSeries(u, i) ==
    IF i > 9 THEN Scale ELSE Scale + MulFix(u, ExpSeries(u, i + 1)) \div i

\* 2^z for z <= 0: 2^(fractional part) halved -floor(z) times
Exp2Fix(z) ==
    LET halvings == -(z \div Scale)
    IN  IF halvings > 30 THEN 0
        ELSE ExpSeries(ToNats(z % Scale), 1) \div Pow2(halvings)

\* ------------------------------------------------- state of models/gmm.py
VARIABLES
    fn,                    \* the entry point called: "run_vem" or "inference"
    x,                     \* the data, N rows of D entries
    K,                     \* number of components
    n_iter,                \* run_vem's iteration count
    pc,                    \* position in the body of fn
    bound,                 \* names of the local variables that are assigned
    r_nk,                  \* local r_nk (N rows of K numbers)
    gmm,                   \* local gmm, a NaturalGMMPrior
    mixing_posterior,      \* local mixing_posterior, a Dirichlet
    component_posteriors,  \* local component_posteriors, a NaturalNormalWishart
    it,                    \* iterations of the for loop completed
    result,                \* the value returned
    err,                   \* the exception that ended the call, or "none"
    calls                  \* history: the draw and the m_step / e_step calls, in order

vemVars == <<fn, x, K, n_iter, pc, bound, r_nk, gmm, mixing_posterior,
             component_posteriors, it, result, err, calls>>

\* ------------ state of experiments/medical/ukbb/sem_vi/conditional_sem.py
VARIABLES
    registry,    \* MODEL_REGISTRY: name -> class ("absent" when the key is missing)
    loaded,      \* the module conditional_sem has been executed (is in sys.modules)
    imports,     \* import statements executed so far
    writes,      \* assignments made to MODEL_REGISTRY['ConditionalVISEM'] by the module
    replaced,    \* history: what the registry held under that name before the assignment
    instances,   \* ConditionalVISEM objects constructed
    sfn,         \* the method running (or last run): "none", "pgm_model", "model", "guide"
    spc,         \* position in it
    env,         \* its local tensors: name -> sequence of scalars along axis 1
    taint,       \* for each local, the sample sites its value was computed from
    trace,       \* the sample sites created by the call, in order
    parents,     \* for each site created, the sites its distribution was built from
    plates,      \* the plates entered by the call
    serr         \* the exception raised, or "none"

semVars == <<registry, loaded, imports, writes, replaced, instances, sfn, spc, env, taint,
             trace, parents, plates, serr>>

\* N, D = x.shape
N == Len(x)

D == Len(x[1])

\* ------------------------------------ torch / companion-module primitives
\* td.Dirichlet(concentration)
Dirichlet(concentration) == [concentration |-> concentration]

\* Support of td.Dirichlet(torch.ones(k)): the open simplex, on a grid.
DirichletFractions == {Fix(1, 3), Fix(2, 3), Fix(1, 1)}

DirichletSupport(k) ==
    {row \in [1..k -> DirichletFractions] : ISum(row) = Scale}

\* td.Dirichlet(torch.ones(k)).sample((n,)): n independent rows
DirichletSamples(k, n) == [1..n -> DirichletSupport(k)]

\* torch.digamma(q) / ln 2 for q > 0.  The recurrence
\* psi(q) = psi(q + 1) - 1/q carries the argument up to y >= 6 (shifted is
\* the sum of the 1/q dropped on the way), where
\* psi(y) = ln y - 1/(2y) - 1/(12 y^2) + 1/(120 y^4) to within 1e-7.
RECURSIVE DigammaShift(_, _)
DigammaShift(q, shifted) ==
    IF q >= 6 * Scale THEN <<q, shifted>>
    ELSE DigammaShift(q + Scale, shifted + Recip(q))

DigammaAsymptotic(y, shifted) ==
    LET r  == Recip(y)
        r2 == MulFix(r, r)
        r4 == MulFix(r2, r2)
    IN  Log2Fix(y) - ToLog2(shifted + r \div 2 + r2 \div 12 - r4 \div 120)

Digamma(q) ==
    LET s == DigammaShift(q, 0) IN DigammaAsymptotic(s[1], s[2])

\* natural_gmm.init: symmetric Dirichlet(alpha_scale) over K weights and K
\* identical Normal-Wishart components in natural-parameter form
\* (kappa*m, scale + kappa*m*m', kappa, dof).
natural_gmm_init(k, d, alpha_scale, nu_scale, mean_scale, cov_scale, dof_init) ==
    [mixing_prior |-> Dirichlet([c \in 1..k |-> alpha_scale]),
     component_prior |->
        [eta1 |-> [c \in 1..k |-> [a \in 1..d |-> nu_scale * mean_scale]],
         eta2 |-> [c \in 1..k |-> [a \in 1..d |-> [b \in 1..d |->
                     IF a = b
                     THEN cov_scale + nu_scale * mean_scale * mean_scale
                     ELSE nu_scale * mean_scale * mean_scale]]],
         eta3 |-> [c \in 1..k |-> nu_scale],
         eta4 |-> [c \in 1..k |-> dof_init]]]

\* NaturalGMMPrior.from_priors: re-labels a posterior pair as a prior
from_priors(mixing, component) ==
    [mixing_prior |-> mixing, component_prior |-> component]

\* Sum over n of weight[n] * value[n]
WeightedSum(weight, value) ==
    ISum([m \in 1..Len(weight) |-> weight[m] * value[m]])

\* NaturalNormalWishart.posterior(x, r_nk): a new object whose natural
\* parameters are the receiver's plus, per component k, the sum over n of
\* r_nk[n,k] * [x[n], outer(x[n], x[n]), 1, 1].  The receiver is not changed.
\* (columns[k] is r_nk[:, k], mass[k] its sum.)
posterior_from(prior, xx, columns, mass) ==
    LET n == Len(xx)
        d == Len(xx[1])
        k == Len(columns)
    IN  [eta1 |-> [c \in 1..k |-> [a \in 1..d |->
                    prior.eta1[c][a]
                        + WeightedSum(columns[c], [m \in 1..n |-> xx[m][a]])]],
         eta2 |-> [c \in 1..k |-> [a \in 1..d |-> [b \in 1..d |->
                    prior.eta2[c][a][b]
                        + WeightedSum(columns[c], [m \in 1..n |-> xx[m][a] * xx[m][b]])]]],
         eta3 |-> [c \in 1..k |-> prior.eta3[c] + mass[c]],
         eta4 |-> [c \in 1..k |-> prior.eta4[c] + mass[c]]]

Columns(r, k) == [c \in 1..k |-> [m \in 1..Len(r) |-> r[m][c]]]

ColumnSums(columns) == [c \in 1..Len(columns) |-> ISum(columns[c])]

posterior_cols(prior, xx, columns) ==
    posterior_from(prior, xx, columns, ColumnSums(columns))

posterior(prior, xx, r) == posterior_cols(prior, xx, Columns(r, Len(prior.eta3)))

\* NaturalNormalWishart.expected_stats(): (expec_eta1: K x D,
\* expec_eta2: K x D x D, expec_log_norm: K), whole numbers of ln 2:
\* eta1 from the posterior mean eta1/eta3, eta2 a non-positive diagonal,
\* the log-normaliser growing with log2 of the pseudo-count eta3.
expected_stats(cp) ==
    LET k == Len(cp.eta3)
        d == Len(cp.eta1[1])
    IN  <<[c \in 1..k |-> [a \in 1..d |->
              Scale * (cp.eta1[c][a] \div cp.eta3[c])]],
          [c \in 1..k |-> [a \in 1..d |-> [b \in 1..d |->
              IF a = b /\ ~(cp.eta4[c] < cp.eta2[c][a][a]) THEN -Scale ELSE 0]]],
          [c \in 1..k |-> Scale * FloorLog2(cp.eta3[c] \div Scale + 1)]>>

\* Tensor.softmax(-1) on one row of logits: exp(z_k - max) / sum_j exp(z_j - max),
\* each quotient rounded to the nearest grid point.
normalise(w, total) ==
    [c \in 1..Len(w) |-> (w[c] * Scale + total \div 2) \div total]

\* (variant: the exponentials are not divided by their sum)
softmax_weights_unnormalised(w) == normalise(w, Scale)

softmax_weights(w) == normalise(w, ISum(w))

softmax_shifted(z, hi) == softmax_weights([c \in 1..Len(z) |-> Exp2Fix(z[c] - hi)])

softmax(z) == softmax_shifted(z, MaxOf({z[c] : c \in 1..Len(z)}))

\* ------------------------------------------------ functions of models/gmm.py
\* _compute_expec_log_lik: prod1 + prod2 - expec_log_norm, shape (N, K), with
\* prod1 = einsum('nd,kd->nk', x, expec_eta1) and
\* prod2 = einsum('nd,kde,ne->nk', x, expec_eta2, x)
expec_log_lik_of(xx, expec_eta1, expec_eta2, expec_log_norm) ==
    LET n == Len(xx)
        d == Len(xx[1])
        k == Len(expec_log_norm)
        prod1(m, c) == ISum([a \in 1..d |-> xx[m][a] * expec_eta1[c][a]])
        prod2(m, c) == ISum([a \in 1..d |->
                          ISum([b \in 1..d |-> xx[m][a] * expec_eta2[c][a][b] * xx[m][b]])])
    IN  [m \in 1..n |-> [c \in 1..k |-> prod1(m, c) + prod2(m, c) - expec_log_norm[c]]]

expec_log_lik_stats(xx, es) == expec_log_lik_of(xx, es[1], es[2], es[3])

compute_expec_log_lik(xx, cp) == expec_log_lik_stats(xx, expected_stats(cp))

\* _compute_expct_log_pi: digamma(alpha_k) - digamma(alpha_k.sum())
expct_log_pi_of(alpha_k, digamma_sum) ==
    [c \in 1..Len(alpha_k) |-> Digamma(alpha_k[c]) - digamma_sum]

compute_expct_log_pi(mp) ==
    expct_log_pi_of(mp.concentration, Digamma(ISum(mp.concentration)))

\* e_step: r_nk = (expct_log_pi + expec_log_lik).softmax(-1)
softmax_rows(expct_log_pi, expec_log_lik) ==
    [m \in 1..Len(expec_log_lik) |->
        softmax([c \in 1..Len(expct_log_pi) |-> expct_log_pi[c] + expec_log_lik[m][c]])]

e_step(xx, mp, cp) ==
    softmax_rows(compute_expct_log_pi(mp), compute_expec_log_lik(xx, cp))

\* m_step: N_k = r_nk.sum(0); Dirichlet(prior concentration + N_k);
\* component_prior.posterior(x, r_nk)
\* (variant: the prior concentration is dropped)
mixing_update_without_prior(concentration, N_k) == Dirichlet(N_k)

mixing_update(concentration, N_k) ==
    Dirichlet([c \in 1..Len(concentration) |-> concentration[c] + N_k[c]])

m_step_cols(xx, columns, mixing_prior, component_prior) ==
    <<mixing_update(mixing_prior.concentration, ColumnSums(columns)),
      posterior_cols(component_prior, xx, columns)>>

m_step(xx, r, mixing_prior, component_prior) ==
    m_step_cols(xx, Columns(r, Len(mixing_prior.concentration)),
                mixing_prior, component_prior)

\* natural_gmm.init(K, D, alpha_scale=0.05 / K, nu_scale=0.5, mean_scale=0,
\*                  cov_scale=D + 0.5, dof_init=D + 0.5)
init_prior(k, d) ==
    natural_gmm_init(k, d, Fix(1, 20 * k), Fix(1, 2), 0,
                     Fix(2 * d + 1, 2), Fix(2 * d + 1, 2))

\* ------------------------------------------------------ calls of run_vem
\* Placeholders held by local variables that are not assigned yet; a name is
\* readable only when it is in bound.
NoDirichlet == Dirichlet(<<>>)

NoNormalWishart == [eta1 |-> <<>>, eta2 |-> <<>>, eta3 |-> <<>>, eta4 |-> <<>>]

NoPrior == from_priors(NoDirichlet, NoNormalWishart)

Returned(kind, value) == [kind |-> kind, value |-> value]

VemInit ==
    /\ fn \in {"run_vem", "inference"}
    /\ \E n \in 1..MaxN, d \in 1..MaxD : x \in [1..n -> XRows(d)]
    /\ K \in 1..MaxK
    /\ n_iter \in (IF fn = "run_vem" THEN 0..MaxIter ELSE {0})
    /\ pc = "sample"
    /\ bound = {}
    /\ r_nk = <<>>
    /\ gmm = NoPrior
    /\ mixing_posterior = NoDirichlet
    /\ component_posteriors = NoNormalWishart
    /\ it = 0
    /\ result = Returned("pending", NoPrior)
    /\ err = "none"
    /\ calls = <<>>

\* (variant: a convergence test leaves the loop after the first iteration)
LoopContinuesUntilConverged(done, total) == done < total /\ done < 1

\* for i in range(n_iter): the loop runs while fewer than n_iter iterations
\* are done; there is no other exit.
LoopContinues(done, total) == done < total

\* (variant: the posterior of the previous iteration is fed back as the prior)
prior_fed_back ==
    IF "mixing_posterior" \in bound
    THEN from_priors(mixing_posterior, component_posteriors)
    ELSE gmm

\* the prior handed to m_step in every iteration: gmm.mixing_prior,
\* gmm.component_prior
prior_argument == gmm

\* (variant: the posteriors are refitted to the final r_nk before returning)
run_vem_return_refitted(mp, cp) ==
    from_priors(m_step(x, r_nk, gmm.mixing_prior, gmm.component_prior)[1],
                m_step(x, r_nk, gmm.mixing_prior, gmm.component_prior)[2])

\* return natural_gmm.NaturalGMMPrior.from_priors(mixing_posterior,
\*                                                component_posteriors)
run_vem_return(mp, cp) == from_priors(mp, cp)

\* r_nk = td.Dirichlet(torch.ones(K)).sample((N,))
RunVemSample ==
    /\ UNCHANGED semVars
    /\ fn = "run_vem" /\ pc = "sample"
    /\ r_nk' \in DirichletSamples(K, N)
    /\ calls' = Append(calls, [op |-> "sample", r_nk |-> r_nk', prior |-> NoPrior,
                               mixing |-> NoDirichlet, component |-> NoNormalWishart])
    /\ bound' = bound \cup {"r_nk"}
    /\ pc' = "init"
    /\ UNCHANGED <<fn, x, K, n_iter, gmm, mixing_posterior, component_posteriors,
                   it, result, err>>

\* gmm = natural_gmm.init(K, D, ...)
RunVemInitPrior ==
    /\ UNCHANGED semVars
    /\ fn = "run_vem" /\ pc = "init"
    /\ gmm' = init_prior(K, D)
    /\ bound' = bound \cup {"gmm"}
    /\ pc' = "loop"
    /\ UNCHANGED <<fn, x, K, n_iter, r_nk, mixing_posterior, component_posteriors,
                   it, result, err, calls>>

\* mixing_posterior, component_posteriors =
\*     m_step(x, r_nk, gmm.mixing_prior, gmm.component_prior)
RunVemMStep ==
    /\ UNCHANGED semVars
    /\ fn = "run_vem" /\ pc = "loop"
    /\ LoopContinues(it, n_iter)
    /\ LET prior == prior_argument
           out == m_step(x, r_nk, prior.mixing_prior, prior.component_prior)
       IN  /\ mixing_posterior' = out[1]
           /\ component_posteriors' = out[2]
           /\ calls' = Append(calls, [op |-> "m_step", r_nk |-> r_nk, prior |-> prior,
                                      mixing |-> out[1], component |-> out[2]])
    /\ bound' = bound \cup {"mixing_posterior", "component_posteriors"}
    /\ pc' = "e_step"
    /\ UNCHANGED <<fn, x, K, n_iter, r_nk, gmm, it, result, err>>

\* r_nk = e_step(x, mixing_posterior, component_posteriors)
RunVemEStep ==
    /\ UNCHANGED semVars
    /\ fn = "run_vem" /\ pc = "e_step"
    /\ r_nk' = e_step(x, mixing_posterior, component_posteriors)
    /\ calls' = Append(calls, [op |-> "e_step", r_nk |-> r_nk', prior |-> NoPrior,
                               mixing |-> mixing_posterior,
                               component |-> component_posteriors])
    /\ it' = it + 1
    /\ pc' = "loop"
    /\ UNCHANGED <<fn, x, K, n_iter, bound, gmm, mixing_posterior,
                   component_posteriors, result, err>>

\* the return statement after the loop; reading a local that was never
\* assigned raises UnboundLocalError
RunVemReturn ==
    /\ UNCHANGED semVars
    /\ fn = "run_vem" /\ pc = "loop"
    /\ ~LoopContinues(it, n_iter)
    /\ IF {"mixing_posterior", "component_posteriors"} \subseteq bound
       THEN /\ result' = Returned("NaturalGMMPrior",
                                  run_vem_return(mixing_posterior, component_posteriors))
            /\ pc' = "done"
            /\ err' = err
       ELSE /\ err' = "UnboundLocalError"
            /\ pc' = "error"
            /\ result' = result
    /\ UNCHANGED <<fn, x, K, n_iter, bound, r_nk, gmm, mixing_posterior,
                   component_posteriors, it, calls>>

\* ---------------------------------------------------- calls of inference
\* r_nk_new, pi = <value>: unpacking iterates the value along its first
\* axis and needs exactly two items, else ValueError.
\* (variant: the statement fails on the name pi whatever the value)
UnpackTwoUndefinedName(value) ==
    [ok |-> FALSE, names |-> {}, error |-> "NameError"]

UnpackTwo(value) ==
    IF Len(value) = 2
    THEN [ok |-> TRUE, names |-> {"r_nk_new", "pi"}, error |-> "none"]
    ELSE [ok |-> FALSE, names |-> {}, error |-> "ValueError"]

InferenceSample ==
    /\ UNCHANGED semVars
    /\ fn = "inference" /\ pc = "sample"
    /\ r_nk' \in DirichletSamples(K, N)
    /\ calls' = Append(calls, [op |-> "sample", r_nk |-> r_nk', prior |-> NoPrior,
                               mixing |-> NoDirichlet, component |-> NoNormalWishart])
    /\ bound' = bound \cup {"r_nk"}
    /\ pc' = "init"
    /\ UNCHANGED <<fn, x, K, n_iter, gmm, mixing_posterior, component_posteriors,
                   it, result, err>>

InferenceInitPrior ==
    /\ UNCHANGED semVars
    /\ fn = "inference" /\ pc = "init"
    /\ gmm' = init_prior(K, D)
    /\ bound' = bound \cup {"gmm"}
    /\ pc' = "m_step"
    /\ UNCHANGED <<fn, x, K, n_iter, r_nk, mixing_posterior, component_posteriors,
                   it, result, err, calls>>

InferenceMStep ==
    /\ UNCHANGED semVars
    /\ fn = "inference" /\ pc = "m_step"
    /\ LET out == m_step(x, r_nk, gmm.mixing_prior, gmm.component_prior)
       IN  /\ mixing_posterior' = out[1]
           /\ component_posteriors' = out[2]
           /\ calls' = Append(calls, [op |-> "m_step", r_nk |-> r_nk, prior |-> gmm,
                                      mixing |-> out[1], component |-> out[2]])
    /\ bound' = bound \cup {"mixing_posterior", "component_posteriors"}
    /\ pc' = "e_step"
    /\ UNCHANGED <<fn, x, K, n_iter, r_nk, gmm, it, result, err>>

\* r_nk_new, pi = e_step(x, mixing_posterior, component_posteriors), the last
\* statement: the function then falls off its end and returns None.
InferenceEStep ==
    /\ UNCHANGED semVars
    /\ fn = "inference" /\ pc = "e_step"
    /\ LET value == e_step(x, mixing_posterior, component_posteriors)
           unpacked == UnpackTwo(value)
       IN  /\ calls' = Append(calls, [op |-> "e_step", r_nk |-> value, prior |-> NoPrior,
                                      mixing |-> mixing_posterior,
                                      component |-> component_posteriors])
           /\ bound' = bound \cup unpacked.names
           /\ err' = unpacked.error
           /\ pc' = IF unpacked.ok THEN "done" ELSE "error"
           /\ result' = IF unpacked.ok THEN Returned("None", NoPrior) ELSE result
    /\ UNCHANGED <<fn, x, K, n_iter, r_nk, gmm, mixing_posterior,
                   component_posteriors, it>>

VemNext ==
    \/ RunVemSample
    \/ RunVemInitPrior
    \/ RunVemMStep
    \/ RunVemEStep
    \/ RunVemReturn
    \/ InferenceSample
    \/ InferenceInitPrior
    \/ InferenceMStep
    \/ InferenceEStep


\* ====================================================================
\* experiments/medical/ukbb/sem_vi/conditional_sem.py
\* ====================================================================
ClassName == "ConditionalVISEM"

RegistryNames == {ClassName, "OtherVISEM"}

\* Scalars: a real number v, or the positive number exp(v).
Real(v) == [kind |-> "real", v |-> v]

Exp(v) == [kind |-> "exp", v |-> v]

\* AffineTransform(loc=0., scale=1.)
lognorm(u) == Real(0 + 1 * u.v)

lognorm_inv(u) == Real((u.v - 0) \div 1)

\* ExpTransform
exp_transform(u) == Exp(u.v)

exp_transform_inv(y) == Real(y.v)

\* ComposeTransform([flow_lognorm, ExpTransform()]), element-wise on a tensor,
\* and its inverse (the inverses applied in reverse order)
constraint_transforms(t) == [i \in 1..Len(t) |-> exp_transform(lognorm(t[i]))]

constraint_transforms_inv(t) == [i \in 1..Len(t) |-> lognorm_inv(exp_transform_inv(t[i]))]

\* torch.cat([...], 1) of two tensors
cat(s, t) == s \o t

RECURSIVE SumReal(_)
SumReal(t) == IF t = <<>> THEN 0 ELSE Head(t).v + SumReal(Tail(t))

\* ConditionalAffineTransform(context_nn=DenseNN(2, [8, 16], param_dims=[1, 1])):
\* loc and log-scale are outputs of the network on the context (here the
\* network with unit weights: loc = sum of the context, scale = 1).
conditional_affine(context, eps) == [i \in 1..Len(eps) |-> Real(SumReal(context) + 1 * eps[i].v)]

\* The rsample of a tensor of the given width from a base Normal
BaseDraws(width) == [1..width -> {Real(e) : e \in Noise}]

\* (variant: brain_volume is also conditioned on the ventricle_volume drawn)
brain_volume_condition_chained == <<"context", "ventricle_volume">>

\* The locals the brain_volume distribution is conditioned on:
\* ConditionalTransformedDistribution(...).condition(context)
brain_volume_condition == <<"context">>

\* The locals the ventricle_volume distribution is conditioned on
ventricle_volume_condition == <<"context">>

\* (variant: an existing entry is kept, as dict.setdefault would)
register_if_absent(reg, name, cls) ==
    IF reg[name] = "absent" THEN [reg EXCEPT ![name] = cls] ELSE reg

\* MODEL_REGISTRY[name] = cls
register(reg, name, cls) == [reg EXCEPT ![name] = cls]

\* (variant: the guide names its site differently from the model)
guide_site_renamed == "latent"

\* the name of the guide's sample site
guide_site == "z"

SemInit ==
    /\ registry \in [RegistryNames -> {"absent", "stale class"}]
    /\ loaded = FALSE
    /\ imports = 0
    /\ writes = 0
    /\ replaced = "nothing yet"
    /\ instances = 0
    /\ sfn = "none"
    /\ spc = "idle"
    /\ env = <<>>
    /\ taint = <<>>
    /\ trace = <<>>
    /\ parents = <<>>
    /\ plates = {}
    /\ serr = "none"

Idle == spc \in {"idle", "returned"}

callVars == <<sfn, spc, env, taint, trace, parents, plates>>

\* First import: the module body runs, the class statement and then the
\* assignment MODEL_REGISTRY[ConditionalVISEM.__name__] = ConditionalVISEM.
LoadModule ==
    /\ UNCHANGED vemVars
    /\ Idle /\ ~loaded /\ imports < MaxImports
    /\ registry' = register(registry, ClassName, "ConditionalVISEM class")
    /\ writes' = writes + 1
    /\ replaced' = registry[ClassName]
    /\ loaded' = TRUE
    /\ imports' = imports + 1
    /\ UNCHANGED <<instances, serr>>
    /\ UNCHANGED callVars

\* A later import finds the module in sys.modules; its body does not run again.
ImportAgain ==
    /\ UNCHANGED vemVars
    /\ Idle /\ loaded /\ imports < MaxImports
    /\ imports' = imports + 1
    /\ UNCHANGED <<registry, loaded, writes, replaced, instances, serr>>
    /\ UNCHANGED callVars

\* ConditionalVISEM(**kwargs): __init__ builds the decoder, the flows and the
\* encoder; it does not touch MODEL_REGISTRY.
Construct ==
    /\ UNCHANGED vemVars
    /\ Idle /\ loaded /\ instances < MaxInstances
    /\ instances' = instances + 1
    /\ UNCHANGED <<registry, loaded, imports, writes, replaced, serr>>
    /\ UNCHANGED callVars

Bind(f, name, value) == [n \in (DOMAIN f) \cup {name} |-> IF n = name THEN value ELSE f[n]]

TaintOf(names) == UNION {taint[n] : n \in names}

Range(q) == {q[i] : i \in 1..Len(q)}

\* torch.cat of the named locals
RECURSIVE CatAll(_)
CatAll(names) == IF names = <<>> THEN <<>> ELSE cat(env[Head(names)], CatAll(Tail(names)))

\* pyro.sample(site, dist) where dist was built from the locals in `from`
SampleSite(site, local, value, from) ==
    /\ env' = Bind(env, local, value)
    /\ taint' = Bind(taint, local, {site})
    /\ trace' = Append(trace, site)
    /\ parents' = Bind(parents, site, TaintOf(from))

StartCall(f, first) ==
    /\ Idle /\ instances >= 1
    /\ sfn' = f
    /\ spc' = first
    /\ trace' = <<>>
    /\ parents' = <<>>
    /\ plates' = {}
    /\ UNCHANGED <<registry, loaded, imports, writes, replaced, instances, serr>>

CallPgmModel ==
    /\ UNCHANGED vemVars
    /\ StartCall("pgm_model", "sex")
    /\ env' = <<>>
    /\ taint' = <<>>

CallModel ==
    /\ UNCHANGED vemVars
    /\ StartCall("model", "sex")
    /\ env' = <<>>
    /\ taint' = <<>>

\* guide(x, age, sex, ventricle_volume, brain_volume): the arguments are
\* observed values, computed from no sample site of this call
CallGuide ==
    /\ UNCHANGED vemVars
    /\ StartCall("guide", "encode")
    /\ \E xv \in BaseDraws(1), sv \in BaseDraws(1), a \in BaseDraws(1),
          v \in BaseDraws(1), b \in BaseDraws(1) :
          env' = [n \in {"x", "age", "sex", "ventricle_volume", "brain_volume"} |->
                    CASE n = "x" -> xv
                      [] n = "sex" -> sv
                      [] n = "age" -> constraint_transforms(a)
                      [] n = "ventricle_volume" -> constraint_transforms(v)
                      [] n = "brain_volume" -> constraint_transforms(b)]
    /\ taint' = [n \in {"x", "age", "sex", "ventricle_volume", "brain_volume"} |-> {}]

Frame == UNCHANGED <<registry, loaded, imports, writes, replaced, instances, serr, sfn, plates>>

\* sex = pyro.sample('sex', Bernoulli(self.sex_logits).to_event(1))
PgmSex ==
    /\ UNCHANGED vemVars
    /\ sfn \in {"pgm_model", "model"} /\ spc = "sex"
    /\ \E value \in BaseDraws(1) : SampleSite("sex", "sex", value, {})
    /\ spc' = "age"
    /\ Frame

\* age = pyro.sample('age', TransformedDistribution(age_base_dist,
\* self.age_flow_transforms)); age_ = self.age_flow_constraint_transforms.inv(age)
PgmAge ==
    /\ UNCHANGED vemVars
    /\ sfn \in {"pgm_model", "model"} /\ spc = "age"
    /\ \E u \in BaseDraws(1) :
          /\ trace' = Append(trace, "age")
          /\ parents' = Bind(parents, "age", {})
          /\ env' = Bind(Bind(env, "age", constraint_transforms(u)),
                         "age_", constraint_transforms_inv(constraint_transforms(u)))
          /\ taint' = Bind(Bind(taint, "age", {"age"}), "age_", {"age"})
    /\ spc' = "context"
    /\ Frame

\* context = torch.cat([sex, age_], 1)
PgmContext ==
    /\ UNCHANGED vemVars
    /\ sfn \in {"pgm_model", "model"} /\ spc = "context"
    /\ env' = Bind(env, "context", cat(env["sex"], env["age_"]))
    /\ taint' = Bind(taint, "context", TaintOf({"sex", "age_"}))
    /\ spc' = "ventricle_volume"
    /\ UNCHANGED <<trace, parents>>
    /\ Frame

\* ventricle_volume = pyro.sample('ventricle_volume',
\*     ConditionalTransformedDistribution(base, flow).condition(context))
PgmVentricleVolume ==
    /\ UNCHANGED vemVars
    /\ sfn \in {"pgm_model", "model"} /\ spc = "ventricle_volume"
    /\ \E eps \in BaseDraws(1) :
          SampleSite("ventricle_volume", "ventricle_volume",
                     constraint_transforms(
                         conditional_affine(CatAll(ventricle_volume_condition), eps)),
                     Range(ventricle_volume_condition))
    /\ spc' = "brain_volume"
    /\ Frame

\* brain_volume = pyro.sample('brain_volume',
\*     ConditionalTransformedDistribution(base, flow).condition(context))
PgmBrainVolume ==
    /\ UNCHANGED vemVars
    /\ sfn \in {"pgm_model", "model"} /\ spc = "brain_volume"
    /\ \E eps \in BaseDraws(1) :
          SampleSite("brain_volume", "brain_volume",
                     constraint_transforms(
                         conditional_affine(CatAll(brain_volume_condition), eps)),
                     Range(brain_volume_condition))
    /\ spc' = "pgm_return"
    /\ Frame

\* return age, sex, ventricle_volume, brain_volume
PgmReturn ==
    /\ UNCHANGED vemVars
    /\ sfn \in {"pgm_model", "model"} /\ spc = "pgm_return"
    /\ spc' = IF sfn = "pgm_model" THEN "returned" ELSE "inverse"
    /\ UNCHANGED <<env, taint, trace, parents>>
    /\ Frame

\* ventricle_volume_, brain_volume_, age_ = the constraint-transform inverses
ModelInverse ==
    /\ UNCHANGED vemVars
    /\ sfn = "model" /\ spc = "inverse"
    /\ env' = Bind(Bind(Bind(env,
                 "ventricle_volume_", constraint_transforms_inv(env["ventricle_volume"])),
                 "brain_volume_", constraint_transforms_inv(env["brain_volume"])),
                 "age_", constraint_transforms_inv(env["age"]))
    /\ taint' = Bind(Bind(Bind(taint,
                 "ventricle_volume_", taint["ventricle_volume"]),
                 "brain_volume_", taint["brain_volume"]),
                 "age_", taint["age"])
    /\ spc' = "z"
    /\ UNCHANGED <<trace, parents>>
    /\ Frame

\* z = pyro.sample('z', Normal(self.z_loc, self.z_scale).to_event(1))
ModelZ ==
    /\ UNCHANGED vemVars
    /\ sfn = "model" /\ spc = "z"
    /\ \E value \in BaseDraws(LatentDim) : SampleSite("z", "z", value, {})
    /\ spc' = "latent"
    /\ Frame

\* latent = torch.cat([z, age_, ventricle_volume_, brain_volume_], 1)
ModelLatent ==
    /\ UNCHANGED vemVars
    /\ sfn = "model" /\ spc = "latent"
    /\ env' = Bind(env, "latent",
                   cat(cat(cat(env["z"], env["age_"]), env["ventricle_volume_"]),
                       env["brain_volume_"]))
    /\ taint' = Bind(taint, "latent",
                     TaintOf({"z", "age_", "ventricle_volume_", "brain_volume_"}))
    /\ spc' = "x"
    /\ UNCHANGED <<trace, parents>>
    /\ Frame

\* x_loc = self.decoder_mean(self.decoder(latent)); x = pyro.sample('x', x_dist);
\* return x, z, age, sex, ventricle_volume, brain_volume
ModelX ==
    /\ UNCHANGED vemVars
    /\ sfn = "model" /\ spc = "x"
    /\ \E eps \in BaseDraws(1) :
          SampleSite("x", "x", conditional_affine(env["latent"], eps), {"latent"})
    /\ spc' = "returned"
    /\ Frame

\* with pyro.plate('observations', x.shape[0]): hidden = self.encoder(x);
\* the three inverses; hidden = torch.cat([hidden, age_, ventricle_volume_,
\* brain_volume_], 1)
GuideEncode ==
    /\ UNCHANGED vemVars
    /\ sfn = "guide" /\ spc = "encode"
    /\ plates' = plates \cup {"observations"}
    /\ LET encoded == [i \in 1..LatentDim |-> env["x"][1]]
           age_ == constraint_transforms_inv(env["age"])
           vv_ == constraint_transforms_inv(env["ventricle_volume"])
           bv_ == constraint_transforms_inv(env["brain_volume"])
       IN  env' = Bind(env, "hidden", cat(cat(cat(encoded, age_), vv_), bv_))
    /\ taint' = Bind(taint, "hidden",
                     TaintOf({"x", "age", "ventricle_volume", "brain_volume"}))
    /\ spc' = "z"
    /\ UNCHANGED <<registry, loaded, imports, writes, replaced, instances, serr, sfn,
                   trace, parents>>

\* latent_dist = self.latent_encoder.predict(hidden);
\* z = pyro.sample('z', latent_dist); return z
GuideZ ==
    /\ UNCHANGED vemVars
    /\ sfn = "guide" /\ spc = "z"
    /\ \E eps \in BaseDraws(LatentDim) :
          SampleSite(guide_site, "z", conditional_affine(env["hidden"], eps), {"hidden"})
    /\ spc' = "returned"
    /\ Frame

SemNext ==
    \/ LoadModule
    \/ ImportAgain
    \/ Construct
    \/ CallPgmModel
    \/ CallModel
    \/ CallGuide
    \/ PgmSex
    \/ PgmAge
    \/ PgmContext
    \/ PgmVentricleVolume
    \/ PgmBrainVolume
    \/ PgmReturn
    \/ ModelInverse
    \/ ModelZ
    \/ ModelLatent
    \/ ModelX
    \/ GuideEncode
    \/ GuideZ

\* ------------------------------------------------------- specifications
\* The two subsystems do not call each other; each is run on its own, the
\* other one at rest.
VemAtRest ==
    /\ fn = "none" /\ x = <<>> /\ K = 0 /\ n_iter = 0 /\ pc = "idle"
    /\ bound = {} /\ r_nk = <<>> /\ gmm = NoPrior
    /\ mixing_posterior = NoDirichlet /\ component_posteriors = NoNormalWishart
    /\ it = 0 /\ result = Returned("pending", NoPrior) /\ err = "none"
    /\ calls = <<>>

SemAtRest ==
    /\ registry = [n \in RegistryNames |-> "absent"]
    /\ loaded = FALSE /\ imports = 0 /\ writes = 0 /\ instances = 0
    /\ replaced = "nothing yet"
    /\ sfn = "none" /\ spc = "idle" /\ env = <<>> /\ taint = <<>>
    /\ trace = <<>> /\ parents = <<>> /\ plates = {} /\ serr = "none"

vars == <<vemVars, semVars>>

InitVEM == VemInit /\ SemAtRest

InitSEM == SemInit /\ VemAtRest

SpecVEM == InitVEM /\ [][VemNext]_vars

SpecSEM == InitSEM /\ [][SemNext]_vars

\* ------------------------------------------------ properties of models/gmm.py
Terminal == pc \in {"done", "error"}

\* Every entry is non-negative and every row sums to 1 as closely as the
\* rounding of its quotients allows: each of the Len(r[m]) entries is off by
\* at most half a grid step.
Normalised(r) ==
    \A m \in 1..Len(r) :
        /\ \A c \in 1..Len(r[m]) : r[m][c] >= 0
        /\ 2 * Abs(ISum(r[m]) - Scale) <= Len(r[m])

ColumnMass(r, c) == ISum([m \in 1..Len(r) |-> r[m][c]])

MStepCalls == {j \in 1..Len(calls) : calls[j].op = "m_step"}

EStepCalls == {j \in 1..Len(calls) : calls[j].op = "e_step"}

\* C1 (as claimed): with n_iter = 0, run_vem makes no m_step and no e_step
\* call, does not end in an error, and returns the freshly initialised prior
\* wrapped by from_priors.
C1_ZeroIterationsReturnInitialPrior ==
    (fn = "run_vem" /\ n_iter = 0) =>
        /\ MStepCalls = {} /\ EStepCalls = {}
        /\ pc # "error"
        /\ pc = "done" =>
              result = Returned("NaturalGMMPrior",
                                from_priors(init_prior(K, D).mixing_prior,
                                            init_prior(K, D).component_prior))

\* C2 (as claimed): every call of inference ends in an undefined-reference
\* error on pi; it never completes and never fails in another way.
C2_InferenceFailsOnUndefinedPi ==
    fn = "inference" => (pc # "done" /\ (pc = "error" => err = "NameError"))

\* C2 (amended): inference assigns pi by unpacking the N rows of e_step's
\* result into two names: with N = 2 it completes and returns None with
\* r_nk_new and pi assigned; with any other N it ends in ValueError; it never
\* ends in an undefined-reference error.
C2_InferenceUnpacksRows ==
    fn = "inference" =>
        /\ err # "NameError"
        /\ Terminal =>
              IF N = 2
              THEN /\ pc = "done" /\ err = "none"
                   /\ result.kind = "None"
                   /\ {"r_nk_new", "pi"} \subseteq bound
              ELSE /\ pc = "error" /\ err = "ValueError"
                   /\ "pi" \notin bound

C2_Witness ==
    /\ fn = "inference" /\ pc = "done" /\ N = 2 /\ K = 2
    /\ "pi" \in bound /\ Len(calls) = 3

\* Statements of run_vem still to execute
Remaining ==
    CASE pc = "sample" -> 2 * n_iter + 3
      [] pc = "init"   -> 2 * n_iter + 2
      [] pc = "loop"   -> 2 * (n_iter - it) + 1
      [] pc = "e_step" -> 2 * (n_iter - it)
      [] OTHER         -> 0

\* C3: for n_iter >= 1 run_vem terminates, after exactly n_iter m_step and
\* n_iter e_step calls, alternating and starting with m_step; the first
\* m_step consumes the Dirichlet draw, every e_step the posteriors of the
\* m_step before it, every later m_step the r_nk of the e_step before it.
C3_Alternation ==
    (fn = "run_vem" /\ n_iter >= 1 /\ pc = "done") =>
        /\ it = n_iter
        /\ Len(calls) = 1 + 2 * n_iter
        /\ calls[1].op = "sample"
        /\ \A j \in 1..n_iter :
              /\ calls[2 * j].op = "m_step"
              /\ calls[2 * j + 1].op = "e_step"
              /\ calls[2 * j].r_nk = calls[2 * j - 1].r_nk
              /\ calls[2 * j + 1].mixing = calls[2 * j].mixing
              /\ calls[2 * j + 1].component = calls[2 * j].component

C3_NoOtherExit ==
    (fn = "run_vem" /\ n_iter >= 1) =>
        /\ it <= n_iter
        /\ pc # "error"
        /\ Cardinality(MStepCalls) <= n_iter

\* C3, in full: in every state the call history of a finished run_vem with
\* n_iter >= 1 is draw, (m_step, e_step) x n_iter, chained as above; the loop
\* has no other exit; and every step strictly lowers the number of
\* statements still to execute, so the call terminates.
C3_ExactlyNIterSweeps ==
    /\ [](C3_Alternation /\ C3_NoOtherExit)
    /\ [][fn = "run_vem" => (Remaining >= 0 /\ Remaining' < Remaining)]_vemVars

C3_Witness ==
    /\ fn = "run_vem" /\ pc = "done" /\ n_iter = 2 /\ K = 2
    /\ Cardinality(MStepCalls) = 2 /\ Cardinality(EStepCalls) = 2

\* C4: for n_iter >= 1 the value returned by run_vem is from_priors of the
\* posteriors the last m_step produced from the r_nk it consumed; the r_nk of
\* the last e_step has no part in it.
C4_ReturnsLastMStep ==
    (fn = "run_vem" /\ n_iter >= 1 /\ pc = "done") =>
        LET last == calls[Len(calls) - 1]
            out == m_step(x, last.r_nk, gmm.mixing_prior, gmm.component_prior)
        IN  /\ last.op = "m_step"
            /\ result = Returned("NaturalGMMPrior", from_priors(last.mixing, last.component))
            /\ result.value = from_priors(out[1], out[2])

C4_Witness ==
    /\ fn = "run_vem" /\ pc = "done" /\ n_iter >= 1
    /\ result.kind = "NaturalGMMPrior"
    /\ calls[Len(calls)].r_nk # calls[Len(calls) - 1].r_nk

\* C5: every r_nk e_step returns is N by K with non-negative entries and rows
\* summing to 1 (to within rounding), and so is the local r_nk of run_vem
\* whenever it is assigned.
C5_ResponsibilitiesNormalised ==
    /\ "r_nk" \in bound =>
          /\ Len(r_nk) = N /\ \A m \in 1..N : Len(r_nk[m]) = K
          /\ Normalised(r_nk)
    /\ \A j \in EStepCalls :
          /\ Len(calls[j].r_nk) = N /\ \A m \in 1..N : Len(calls[j].r_nk[m]) = K
          /\ Normalised(calls[j].r_nk)

C5_Witness ==
    /\ fn = "run_vem" /\ pc = "loop" /\ it >= 1 /\ K = 2 /\ N = 3
    /\ \E m \in 1..N : r_nk[m][1] # r_nk[m][2]

\* C6: m_step returns the mixing posterior with concentration
\* alpha[k] + sum_n r_nk[n,k] for the alpha and r_nk it was given, and the
\* component posterior component_prior.posterior(x, r_nk).
C6_MStepUpdate ==
    \A j \in MStepCalls :
        LET call == calls[j]
        IN  /\ Len(call.mixing.concentration) = K
            /\ \A c \in 1..K :
                  call.mixing.concentration[c] =
                      call.prior.mixing_prior.concentration[c]
                          + ColumnMass(call.r_nk, c)
            /\ call.component = posterior(call.prior.component_prior, x, call.r_nk)

C6_Witness ==
    /\ K = 2 /\ N >= 2
    /\ \E j \in MStepCalls : calls[j].mixing.concentration[1] # calls[j].mixing.concentration[2]

\* C10: x and the initial prior are never changed once set, every m_step of
\* run_vem receives that initial prior, and so after every m_step the mixing
\* concentration is the initial concentration plus the column sums of the
\* r_nk just consumed: no mass is carried over from earlier iterations.
C10_PriorStaysInitial ==
    fn = "run_vem" =>
        /\ "gmm" \in bound => gmm = init_prior(K, D)
        /\ \A j \in MStepCalls :
              /\ calls[j].prior = init_prior(K, D)
              /\ \A c \in 1..K :
                    calls[j].mixing.concentration[c] =
                        Fix(1, 20 * K) + ColumnMass(calls[j].r_nk, c)

\* C10, in full: the statement above holds always, and no step changes x
\* or, once assigned, gmm.
C10_PriorNeverFedBack ==
    /\ []C10_PriorStaysInitial
    /\ [][x' = x /\ ("gmm" \in bound => gmm' = gmm)]_vemVars

C10_Witness ==
    /\ fn = "run_vem" /\ pc = "done" /\ n_iter = 2
    /\ Cardinality(MStepCalls) = 2
    /\ calls[2].r_nk # calls[4].r_nk

\* --------------------------------------- properties of conditional_sem.py
ModelClass == "ConditionalVISEM class"

ModelSites == <<"sex", "age", "ventricle_volume", "brain_volume", "z", "x">>

IsPrefix(p, q) == Len(p) <= Len(q) /\ \A i \in 1..Len(p) : p[i] = q[i]

Sampled(site) == site \in DOMAIN parents

\* C7: MODEL_REGISTRY['ConditionalVISEM'] is written exactly once, by loading
\* the module, and then refers to the class, whatever the registry held under
\* that name before; nothing raises; constructing instances leaves the
\* registry as it is.
C7_RegistryState ==
    /\ writes = (IF loaded THEN 1 ELSE 0)
    /\ loaded => registry[ClassName] = ModelClass
    /\ ~loaded => (instances = 0 /\ registry[ClassName] # ModelClass)
    /\ serr = "none"

\* C7, in full: the registry state above holds always; a step that
\* constructs an instance leaves the registry unchanged; the registry
\* changes only in the step that loads the module, which sets the one key;
\* once loaded, no further write is made.
C7_RegisteredOnceAtLoad ==
    /\ []C7_RegistryState
    /\ [][/\ instances' # instances => registry' = registry
          /\ registry' # registry =>
                (~loaded /\ loaded' /\ registry' = [registry EXCEPT ![ClassName] = ModelClass])
          /\ loaded => writes' = writes]_vars

C7_Witness ==
    /\ loaded /\ instances = 2 /\ imports = 2 /\ writes = 1
    /\ replaced = "stale class"
    /\ registry[ClassName] = ModelClass

\* C8: guide creates exactly one sample site, 'z'; model creates exactly the
\* sites sex, age, ventricle_volume, brain_volume, z and x, each once; so the
\* guide's sites are among the model's and the other five have no
\* counterpart in the guide.
C8_SampleSites ==
    /\ sfn = "guide" =>
          /\ IsPrefix(trace, <<"z">>)
          /\ spc = "returned" =>
                /\ trace = <<"z">>
                /\ Range(trace) \subseteq Range(ModelSites)
                /\ Range(trace) \cap {"sex", "age", "ventricle_volume", "brain_volume", "x"} = {}
    /\ sfn = "model" =>
          /\ IsPrefix(trace, ModelSites)
          /\ spc = "returned" => trace = ModelSites

C8_Witness ==
    /\ sfn = "guide" /\ spc = "returned" /\ trace = <<"z">>
    /\ "observations" \in plates
    /\ env["z"] # env["x"]

\* C9: pgm_model draws sex, age, ventricle_volume, brain_volume in that
\* order; sex and age are drawn from nothing else; ventricle_volume and
\* brain_volume are both conditioned on context = [sex, age_], age_ being the
\* constraint-transform inverse of age, and not on each other.
C9_PgmGraph ==
    sfn \in {"pgm_model", "model"} =>
        /\ IsPrefix(trace, ModelSites)
        /\ (sfn = "pgm_model" /\ spc = "returned") =>
              trace = <<"sex", "age", "ventricle_volume", "brain_volume">>
        /\ Sampled("sex") => parents["sex"] = {}
        /\ Sampled("age") => parents["age"] = {}
        /\ "context" \in DOMAIN env =>
              env["context"] = cat(env["sex"], constraint_transforms_inv(env["age"]))
        /\ Sampled("ventricle_volume") =>
              /\ parents["ventricle_volume"] = {"sex", "age"}
              /\ \E eps \in BaseDraws(1) :
                    env["ventricle_volume"] =
                        constraint_transforms(conditional_affine(env["context"], eps))
        /\ Sampled("brain_volume") =>
              /\ parents["brain_volume"] = {"sex", "age"}
              /\ \E eps \in BaseDraws(1) :
                    env["brain_volume"] =
                        constraint_transforms(conditional_affine(env["context"], eps))

C9_Witness ==
    /\ sfn = "pgm_model" /\ spc = "returned"
    /\ env["sex"][1].v = 1 /\ env["age_"][1].v = 1
    /\ env["ventricle_volume"] # env["brain_volume"]

====
